---- MODULE Spec2Model ----
(***************************************************************************)
(* Model of src/schedule_generator.py: ScheduleGenerator.generate builds   *)
(* one CP-SAT model from a partially pre-filled monthly grid and an option *)
(* set, then calls the backend once (_solve_single) or repeatedly under a  *)
(* wall-clock budget (_solve_multiple) and extracts each assignment.       *)
(*                                                                         *)
(* The backend (cp_model.CpSolver) is an external collaborator: a call     *)
(* returns OPTIMAL or FEASIBLE with any assignment that satisfies every    *)
(* constraint added to the model, INFEASIBLE only when there is none, or   *)
(* UNKNOWN (time slice exhausted).  The CpModel is represented by the set  *)
(* of assignments that satisfy the constraints the builder adds.           *)
(***************************************************************************)
EXTENDS Integers, Sequences, FiniteSets, TLC

\* ---------------------------------------------------------------- bounds
\* Days of the target month that the model covers (num_days).
NumDays == 2
\* Largest overrun of one backend call beyond its time limit (seconds).
MaxOverrun == 2

\* ------------------------------------------------------ WorkCode, ShiftType
EMPTY == ""
KnownCodes == {"Z", "HC", "IA", "R", "RQ", "ZT", "HCT", "IAT", "DT"}
\* A code outside the WorkCode vocabulary, as a caller may send it.
UnknownCode == "XX"
InputCodes == KnownCodes \cup {UnknownCode}

OFF == 0
AM == 1
PM_HC == 2
PM_IA == 3
ShiftTypes == {OFF, AM, PM_HC, PM_IA}

\* Values of the four BoolVars shifts[(m, d, s)] of one (member, day).
CellVals == [ShiftTypes -> {0, 1}]

Min(a, b) == IF a <= b THEN a ELSE b

\* ---------------------------------------------------------------- state
VARIABLES
    schedule_input,  \* input_data["schedule"]: <<[name, days]>>, days a sequence of codes
    option,          \* input_data["option"]
    num_solutions,   \* argument of generate
    pc,              \* position of the run: start, loop, solving, after, done
    model,           \* self.model, as the set of assignments satisfying its constraints
    i,               \* loop variable of _solve_multiple
    now,             \* time.time() - start_time
    solver,          \* parameters of the CpSolver whose Solve call is in flight
    calls,           \* the backend calls that returned, in order
    schedules,       \* local list of _solve_multiple
    result           \* what generate returned

vars == <<schedule_input, option, num_solutions, pc, model, i, now, solver, calls,
          schedules, result>>

\* self.num_members, self.num_days
num_members == Len(schedule_input)
num_days == NumDays
Members == 1..num_members
Days == 0..(num_days - 1)

\* member_schedule["days"] of member m, and its cell days[d] (0-based d).
DaysOf(m) == schedule_input[m].days
HasCell(m, d) == d < Len(DaysOf(m))
CodeAt(m, d) == DaysOf(m)[d + 1]

\* ------------------------------------------------------------- calendar
\* datetime(year, month, day).weekday(): 0=Monday .. 6=Sunday.
MonthOffset == <<0, 3, 2, 5, 0, 3, 5, 1, 4, 6, 2, 4>>
PyWeekday(year, month, day) ==
    LET y == IF month < 3 THEN year - 1 ELSE year
        sunday0 == (y + (y \div 4) - (y \div 100) + (y \div 400)
                    + MonthOffset[month] + day) % 7
    IN (sunday0 + 6) % 7

\* _get_day_of_week: 0=Sunday .. 6=Saturday.
GetDayOfWeek(day_index) ==
    LET weekday == PyWeekday(option.targetMonth[1], option.targetMonth[2], day_index + 1)
    IN (weekday + 1) % 7

\* ------------------------------------------------------ model builder
\* AddBasicConstraints with "at most one" in place of "exactly one".
AddBasicConstraints_AtMostOne(c) == c[OFF] + c[AM] + c[PM_HC] + c[PM_IA] <= 1

\* _add_basic_constraints, for one (m, d): exactly one shift type.
AddBasicConstraints(c) == c[OFF] + c[AM] + c[PM_HC] + c[PM_IA] = 1

\* _add_predefined_schedule_constraints, for one (m, d).
AddPredefinedScheduleConstraints(m, d, c) ==
    IF ~HasCell(m, d) THEN TRUE
    ELSE LET code == CodeAt(m, d) IN
         IF code = EMPTY THEN TRUE
         ELSE IF code \in {"RQ", "R"} THEN c[OFF] = 1
         ELSE IF code \in {"Z", "ZT"} THEN c[AM] = 1
         ELSE IF code \in {"HC", "HCT"} THEN c[PM_HC] = 1
         ELSE IF code \in {"IA", "IAT"} THEN c[PM_IA] = 1
         ELSE IF code = "DT" THEN c[OFF] = 1
         ELSE TRUE

\* Number of members whose pre-filled cell of day d is one of codes.
CountCodes(d, codes) ==
    Cardinality({m \in Members : HasCell(m, d) /\ CodeAt(m, d) \in codes})

\* _add_daily_staffing_constraints, the head of the loop body for day d: the
\* weekday class and the counts of pre-filled half-weight cells.
DailyCounts(d) ==
    [is_reduced_day |-> GetDayOfWeek(d) \in option.reducedStaffingDays,
     zt_count |-> CountCodes(d, {"ZT"}),
     hct_iat_count |-> CountCodes(d, {"HCT", "IAT"})]

RECURSIVE AmTotal(_, _)
\* sum(shifts[(m, d, AM)] for m in range(k)) over the cells col of one day.
AmTotal(col, k) == IF k = 0 THEN 0 ELSE col[k][AM] + AmTotal(col, k - 1)

RECURSIVE PmTotal(_, _)
\* sum(shifts[(m, d, PM_HC)] + shifts[(m, d, PM_IA)] for m in range(k)).
PmTotal(col, k) == IF k = 0 THEN 0 ELSE col[k][PM_HC] + col[k][PM_IA] + PmTotal(col, k - 1)

\* AddDailyStaffingConstraints that counts a training cell as a full head.
AddDailyStaffingConstraints_Undoubled(n, col) ==
    /\ AmTotal(col, num_members) = 1
    /\ PmTotal(col, num_members) = (IF n.is_reduced_day THEN 1 ELSE 2)

\* _add_daily_staffing_constraints, the two constraints added for one day;
\* n is DailyCounts of the day and col[m] the cell of member m.
AddDailyStaffingConstraints(n, col) ==
    LET am_total == AmTotal(col, num_members)
        pm_total == PmTotal(col, num_members)
    IN /\ IF n.zt_count > 0
          THEN (am_total - n.zt_count) * 2 + n.zt_count = 2
          ELSE am_total = 1
       /\ IF n.is_reduced_day
          THEN IF n.hct_iat_count > 0
               THEN (pm_total - n.hct_iat_count) * 2 + n.hct_iat_count = 2
               ELSE pm_total = 1
          ELSE IF n.hct_iat_count > 0
               THEN (pm_total - n.hct_iat_count) * 2 + n.hct_iat_count = 4
               ELSE pm_total = 2

\* self.option["dayOffIndividual"].get(member_name, 0)
TargetDayoff(m) ==
    LET member_name == schedule_input[m].name IN
    IF member_name \in DOMAIN option.dayOffIndividual
    THEN option.dayOffIndividual[member_name] ELSE 0

\* In what follows x is an assignment of the variables of days 0..Len(x)-1:
\* x[d + 1][m][s] is the value of shifts[(m, d, s)].
\* sum(c[s] for s in types) over the variables c of one (member, day).
CellSum(c, types) ==
    (IF OFF \in types THEN c[OFF] ELSE 0) + (IF AM \in types THEN c[AM] ELSE 0)
    + (IF PM_HC \in types THEN c[PM_HC] ELSE 0) + (IF PM_IA \in types THEN c[PM_IA] ELSE 0)

RECURSIVE SumShifts(_, _, _, _, _)
\* sum(sum(shifts[(m, k, s)] for s in types) for k in range(lo, hi + 1))
SumShifts(x, m, types, lo, hi) ==
    IF hi < lo THEN 0
    ELSE CellSum(x[hi + 1][m], types) + SumShifts(x, m, types, lo, hi - 1)

\* _add_dayoff_constraints, for one member.
AddDayoffConstraints(x, m) ==
    SumShifts(x, m, {OFF}, 0, num_days - 1) = TargetDayoff(m)

\* AddRqAdjacentConstraints without the rule for the day after the RQ cell.
AddRqAdjacentConstraints_PreviousOnly(x, m, d) ==
    (HasCell(m, d) /\ CodeAt(m, d) = "RQ") =>
        ((d > 0 /\ CodeAt(m, d - 1) = EMPTY) => x[d][m][OFF] = 0)

\* _add_rq_adjacent_constraints, for one member and one day d of the loop.
AddRqAdjacentConstraints(x, m, d) ==
    (HasCell(m, d) /\ CodeAt(m, d) = "RQ") =>
        /\ (d > 0 /\ CodeAt(m, d - 1) = EMPTY) => x[d][m][OFF] = 0
        /\ (d < num_days - 1 /\ (~HasCell(m, d + 1) \/ CodeAt(m, d + 1) = EMPTY))
               => x[d + 2][m][OFF] = 0

\* AddPmToAmConstraints that forgets the PM_IA shift.
AddPmToAmConstraints_HcOnly(x, m, d) ==
    x[d + 1][m][PM_HC] + x[d + 2][m][AM] <= 1

\* _add_pm_to_am_constraints, for one member and one day d of range(num_days - 1).
AddPmToAmConstraints(x, m, d) ==
    x[d + 1][m][PM_HC] + x[d + 1][m][PM_IA] + x[d + 2][m][AM] <= 1

\* WindowConstraint whose loop stops one window short: range(num_days - limit - 1).
WindowConstraint_OneShort(x, m, types, limit, d) ==
    (0 <= d /\ d < num_days - limit - 1) => SumShifts(x, m, types, d, d + limit) <= limit

\* One run-length constraint: the window of limit + 1 days that starts at d,
\* for d in range(num_days - limit), over the shift types counted.
WindowConstraint(x, m, types, limit, d) ==
    (0 <= d /\ d < num_days - limit) => SumShifts(x, m, types, d, d + limit) <= limit

\* _add_continuous_work_constraints, for one member: the windows of the three
\* loops that end on day e.
AddContinuousWorkConstraints(x, m, e) ==
    LET am_limit == option.continuousWorkLimit.am
        pm_limit == option.continuousWorkLimit.pm
        total_limit == option.continuousWorkLimit.total
    IN /\ WindowConstraint(x, m, {AM}, am_limit, e - am_limit)
       /\ WindowConstraint(x, m, {PM_HC, PM_IA}, pm_limit, e - pm_limit)
       /\ WindowConstraint(x, m, {AM, PM_HC, PM_IA}, total_limit, e - total_limit)

\* The cells of (m, d) allowed by the constraints that read that cell alone.
CellValues(m, d) ==
    {c \in CellVals : AddBasicConstraints(c) /\ AddPredefinedScheduleConstraints(m, d, c)}

RECURSIVE ColumnsUpTo(_, _)
\* The columns of day d over members 1..k, each cell within CellValues.
ColumnsUpTo(d, k) ==
    IF k = 0 THEN {<<>>}
    ELSE {Append(col, c) : col \in ColumnsUpTo(d, k - 1), c \in CellValues(k, d)}

\* The columns of day d allowed by the constraints that read day d alone.
DayColumns(d) ==
    LET n == DailyCounts(d)
    IN {col \in ColumnsUpTo(d, num_members) : AddDailyStaffingConstraints(n, col)}

\* The constraints on member m whose last day is e all hold of x.
RowConstraintsEndingAt(x, m, e) ==
    /\ (e >= 1) => AddPmToAmConstraints(x, m, e - 1)
    /\ (e = num_days - 1) => AddDayoffConstraints(x, m)
    /\ \A d \in 0..e : (Min(d + 1, num_days - 1) = e) => AddRqAdjacentConstraints(x, m, d)
    /\ AddContinuousWorkConstraints(x, m, e)

RECURSIVE AssignmentsUpTo(_)
\* The assignments of days 0..k-1 that satisfy every constraint reading those
\* days only.
AssignmentsUpTo(k) ==
    IF k = 0 THEN {<<>>}
    ELSE {x \in {Append(h, col) : h \in AssignmentsUpTo(k - 1), col \in DayColumns(k - 1)} :
             \A m \in Members : RowConstraintsEndingAt(x, m, k - 1)}

\* generate, steps 1-2: the assignments v[m][d][s] of the variables created by
\* _create_variables that satisfy every constraint the _add_* methods add.
BuildModel ==
    {[m \in Members |-> [d \in Days |-> x[d + 1][m]]] : x \in AssignmentsUpTo(num_days)}

\* ------------------------------------------------------------ extractor
\* ExtractCell that reads the solver's value also for a pre-filled cell.
ExtractCell_IgnoresPrefilled(v, m, d) ==
    IF v[m][d][OFF] = 1 THEN "R"
    ELSE IF v[m][d][AM] = 1 THEN "Z"
    ELSE IF v[m][d][PM_HC] = 1 THEN "HC"
    ELSE IF v[m][d][PM_IA] = 1 THEN "IA"
    ELSE ""

\* _extract_solution, one cell.
ExtractCell(v, m, d) ==
    IF HasCell(m, d) /\ CodeAt(m, d) # EMPTY THEN CodeAt(m, d)
    ELSE IF v[m][d][OFF] = 1 THEN "R"
    ELSE IF v[m][d][AM] = 1 THEN "Z"
    ELSE IF v[m][d][PM_HC] = 1 THEN "HC"
    ELSE IF v[m][d][PM_IA] = 1 THEN "IA"
    ELSE ""

\* _extract_solution: result_schedule; days[d] is at index d + 1.
ExtractSolution(v) ==
    [m \in Members |->
        [name |-> schedule_input[m].name,
         days |-> [k \in 1..num_days |-> ExtractCell(v, m, k - 1)]]]

\* --------------------------------------------------------------- driver
\* max_time_in_seconds of _solve_single; max_total_time and the per-call cap
\* of _solve_multiple.
SingleTimeLimit == 60
MaxTotalTime == 10
PerCallCap == 5

NoResult == [status |-> "none"]
NoSolver == [active |-> FALSE]

\* The return value of _solve_single for a status that carries no assignment.
SingleError(status) ==
    IF status = "INFEASIBLE"
    THEN [status |-> "error", message |-> "no schedule satisfies the constraints (INFEASIBLE)"]
    ELSE IF status = "MODEL_INVALID"
    THEN [status |-> "error", message |-> "the model is invalid (MODEL_INVALID)"]
    ELSE [status |-> "error", message |-> "cannot generate a schedule. Status: " \o status]

\* The statuses a backend call can end with that carry no assignment.
FailureStatuses(mdl) == IF mdl = {} THEN {"INFEASIBLE", "UNKNOWN"} ELSE {"UNKNOWN"}

\* How long a backend call given time limit `limit` can take: it returns at
\* once, at its limit, or overruns its limit.
CallDurations(limit) == {1, limit, limit + MaxOverrun}

\* remaining_time = max_total_time - elapsed_time
RemainingTime == MaxTotalTime - now

\* CallTimeLimit that ignores the remaining budget.
CallTimeLimit_CapOnly(remaining_time) == PerCallCap

\* solver.parameters.max_time_in_seconds of one call of _solve_multiple
CallTimeLimit(remaining_time) == Min(remaining_time, PerCallCap)

\* The record of one backend call that returned: its parameters, when it
\* started and returned, its status and (for OPTIMAL or FEASIBLE) its assignment.
CallRecord(seed, limit, start, finish, status, value) ==
    [seed |-> seed, limit |-> limit, start |-> start, finish |-> finish,
     status |-> status, value |-> value]
NoValue == <<>>

\* generate with num_solutions == 1: build the model, then _solve_single (no
\* seed is set; the clock is not read).
GenerateSingle ==
    /\ pc = "start"
    /\ num_solutions = 1
    /\ model' = BuildModel
    /\ \/ \E status \in {"OPTIMAL", "FEASIBLE"} : \E v \in model' :
            /\ result' = [status |-> "success", schedule |-> ExtractSolution(v)]
            /\ calls' = <<CallRecord(0, SingleTimeLimit, 0, 0, status, v)>>
       \/ \E status \in FailureStatuses(model') :
            /\ result' = SingleError(status)
            /\ calls' = <<CallRecord(0, SingleTimeLimit, 0, 0, status, NoValue)>>
    /\ pc' = "done"
    /\ UNCHANGED <<schedule_input, option, num_solutions, i, now, solver, schedules>>

\* generate with num_solutions != 1: build the model, enter _solve_multiple.
GenerateMultiple ==
    /\ pc = "start"
    /\ num_solutions # 1
    /\ model' = BuildModel
    /\ schedules' = <<>>
    /\ now' = 0
    /\ i' = 0
    /\ pc' = IF num_solutions > 0 THEN "loop" ELSE "after"
    /\ UNCHANGED <<schedule_input, option, num_solutions, solver, calls, result>>

\* Loop head of _solve_multiple: the budget is used up, break.
LoopBreak ==
    /\ pc = "loop"
    /\ RemainingTime <= 0
    /\ pc' = "after"
    /\ UNCHANGED <<schedule_input, option, num_solutions, model, i, now, solver, calls,
                   schedules, result>>

\* StartCall that gives every call the seed 0.
StartCall_FixedSeed ==
    /\ pc = "loop"
    /\ RemainingTime > 0
    /\ solver' = [active |-> TRUE, seed |-> 0, limit |-> CallTimeLimit(RemainingTime),
                  start |-> now]
    /\ pc' = "solving"
    /\ UNCHANGED <<schedule_input, option, num_solutions, model, i, now, calls,
                   schedules, result>>

\* Loop head of _solve_multiple: create the solver and call Solve.
StartCall ==
    /\ pc = "loop"
    /\ RemainingTime > 0
    /\ solver' = [active |-> TRUE, seed |-> i, limit |-> CallTimeLimit(RemainingTime),
                  start |-> now]
    /\ pc' = "solving"
    /\ UNCHANGED <<schedule_input, option, num_solutions, model, i, now, calls,
                   schedules, result>>

\* Solve returns in _solve_multiple; the rest of the loop body runs.
BackendReturns ==
    /\ pc = "solving"
    /\ \E dur \in CallDurations(solver.limit) :
        /\ now' = now + dur
        /\ \/ \E status \in {"OPTIMAL", "FEASIBLE"} : \E v \in model :
                /\ schedules' = Append(schedules, ExtractSolution(v))
                /\ calls' = Append(calls, CallRecord(solver.seed, solver.limit,
                                                     solver.start, now', status, v))
           \/ \E status \in FailureStatuses(model) :
                /\ schedules' = schedules
                /\ calls' = Append(calls, CallRecord(solver.seed, solver.limit,
                                                     solver.start, now', status, NoValue))
    /\ solver' = NoSolver
    /\ i' = i + 1
    /\ pc' = IF i + 1 < num_solutions THEN "loop" ELSE "after"
    /\ UNCHANGED <<schedule_input, option, num_solutions, model, result>>

\* SolveMultipleResult that reports fewer schedules than requested as an error.
SolveMultipleResult_PartialIsError(scheds, total_elapsed) ==
    IF Len(scheds) < num_solutions
    THEN [status |-> "error", message |-> "cannot generate a schedule (search time)"]
    ELSE [status |-> "success", schedules |-> scheds, count |-> Len(scheds),
          elapsed_time |-> total_elapsed]

\* The return value of _solve_multiple.
SolveMultipleResult(scheds, total_elapsed) ==
    IF Len(scheds) = 0
    THEN [status |-> "error", message |-> "cannot generate a schedule (search time)"]
    ELSE [status |-> "success", schedules |-> scheds, count |-> Len(scheds),
          elapsed_time |-> total_elapsed]

\* After the loop of _solve_multiple: return.
ReturnMultiple ==
    /\ pc = "after"
    /\ result' = SolveMultipleResult(schedules, now)
    /\ pc' = "done"
    /\ UNCHANGED <<schedule_input, option, num_solutions, model, i, now, solver, calls,
                   schedules>>

Next ==
    \/ GenerateSingle
    \/ GenerateMultiple
    \/ LoopBreak
    \/ StartCall
    \/ BackendReturns
    \/ ReturnMultiple

\* --------------------------------------------------------------- inputs
MemberNames == <<"A", "B", "C">>
InputMembers == 1..Len(MemberNames)
InputDays == 0..(NumDays - 1)
\* (year, month) of targetMonth: 2025-02 starts on a Saturday.
TargetMonths == {<<2025, 2>>}
ReducedStaffingChoices == {{}, {0}, {0, 6}}
WorkLimits == {[am |-> 1, pm |-> 1, total |-> 2], [am |-> 5, pm |-> 4, total |-> 6]}
\* dayOffIndividual: quotas of 0..2 days; with three members at most one
\* member can be off on a day, so larger totals than NumDays stay out.
DayOffChoices ==
    {q \in [{MemberNames[m] : m \in InputMembers} -> 0..2] :
        q["A"] + q["B"] + q["C"] <= NumDays}
Options ==
    [dayOffIndividual : DayOffChoices, continuousWorkLimit : WorkLimits,
     targetMonth : TargetMonths, reducedStaffingDays : ReducedStaffingChoices]

\* A grid from its rows; rows[m] is the days list of member m.
GridOf(rows) == [m \in InputMembers |-> [name |-> MemberNames[m], days |-> rows[m]]]
EmptyRows == [m \in InputMembers |-> [k \in 1..NumDays |-> EMPTY]]
\* rows with cell (m, d) set to code.
WithCell(rows, m, d, code) == [rows EXCEPT ![m][d + 1] = code]

\* Sparse grids: nothing pre-filled, one pre-filled cell of any code, or two
\* pre-filled training cells of members 1 and 2 on one day.
TrainingCodes == {"ZT", "HCT", "IAT", "DT"}
SparseRows ==
    {EmptyRows}
    \cup {WithCell(EmptyRows, m, d, code) : m \in InputMembers, d \in InputDays,
                                             code \in InputCodes}
    \cup {WithCell(WithCell(EmptyRows, p[1], d, t[1]), p[2], d, t[2]) :
             p \in {<<1, 2>>}, d \in InputDays,
             t \in TrainingCodes \X TrainingCodes}

\* Ragged grids: member 1's list is one cell short of the month, or carries one
\* cell past its end; at most one cell of member 1 is pre-filled.
RaggedRows ==
    LET base == {EmptyRows} \cup {WithCell(EmptyRows, 1, d, code) :
                                      d \in InputDays, code \in InputCodes}
    IN {[rows EXCEPT ![1] = SubSeq(rows[1], 1, NumDays - 1)] : rows \in base}
       \cup {[rows EXCEPT ![1] = Append(rows[1], "RQ")] : rows \in base}

\* Dense grids: the roster A on Z, B on HC, C on IA every day, with at most one
\* cell left for the solver.
FullRows == [m \in InputMembers |-> [k \in 1..NumDays |-> <<"Z", "HC", "IA">>[m]]]
DenseRows ==
    {FullRows} \cup {WithCell(FullRows, m, d, EMPTY) : m \in InputMembers, d \in InputDays}
\* The roster with one member's cell of one day turned into the training code
\* of that member's shift.
DenseTrainingRows ==
    {WithCell(FullRows, m, d, <<"ZT", "HCT", "IAT">>[m]) : m \in InputMembers, d \in InputDays}
DenseOptions ==
    {o \in Options : /\ o.reducedStaffingDays = {}
                     /\ o.dayOffIndividual["A"] <= 1
                     /\ o.dayOffIndividual["B"] = 0 /\ o.dayOffIndividual["C"] = 0}

\* One run of generate: single-solution mode over the sparse and ragged grids,
\* multi-solution mode over the dense grids.
Init ==
    /\ \/ /\ num_solutions = 1
          /\ schedule_input \in {GridOf(rows) : rows \in SparseRows \cup RaggedRows}
          /\ option \in Options
       \/ /\ num_solutions \in {2, 3}
          /\ schedule_input \in {GridOf(rows) : rows \in DenseRows \cup DenseTrainingRows}
          /\ option \in DenseOptions
    /\ pc = "start"
    /\ model = {}
    /\ i = 0
    /\ now = 0
    /\ solver = NoSolver
    /\ calls = <<>>
    /\ schedules = <<>>
    /\ result = NoResult

Spec == Init /\ [][Next]_vars

\* The runs of generate that enter _solve_multiple (num_solutions != 1).
MultiInit == Init /\ num_solutions # 1
MultiNext ==
    \/ GenerateMultiple
    \/ LoopBreak
    \/ StartCall
    \/ BackendReturns
    \/ ReturnMultiple

\* The run is one sequential thread and every backend call returns (it is given
\* a time limit), so a step that can be taken is eventually taken.
MultiSpec == MultiInit /\ [][MultiNext]_vars /\ WF_vars(MultiNext)

\* ------------------------------------------------------------ properties
\* The schedules of the result generate returned (none for an error result).
ReturnedSchedules ==
    IF pc # "done" \/ result.status # "success" THEN {}
    ELSE IF "schedules" \in DOMAIN result
         THEN {result.schedules[k] : k \in 1..Len(result.schedules)}
         ELSE {result.schedule}

\* The backend calls that ended OPTIMAL or FEASIBLE.
SolvedCalls ==
    {k \in 1..Len(calls) : calls[k].status \in {"OPTIMAL", "FEASIBLE"}}

\* The input cell (m, d) is EMPTY: an empty string, or past the end of the list.
InputEmpty(m, d) == ~HasCell(m, d) \/ CodeAt(m, d) = EMPTY
\* The input has a code outside the WorkCode vocabulary inside the month.
HasUnknownCode ==
    \E m \in Members, d \in Days : HasCell(m, d) /\ CodeAt(m, d) \notin KnownCodes \cup {EMPTY}

\* Number of days of output row `days` whose code is one of codes.
CountIn(days, codes) == Cardinality({k \in 1..Len(days) : days[k] \in codes})
\* Number of members whose output cell of day d (0-based) is one of codes.
CountOn(s, d, codes) == Cardinality({m \in Members : s[m].days[d + 1] \in codes})

OffCodes == {"R", "RQ", "DT"}
AmCodes == {"Z", "ZT"}
PmCodes == {"HC", "IA", "HCT", "IAT"}

\* C1: in every returned schedule, every member's row holds exactly as many
\* R, RQ and DT cells as dayOffIndividual configures for that member.
C1_QuotaExact ==
    \A s \in ReturnedSchedules : \A m \in Members :
        CountIn(s[m].days, OffCodes) = TargetDayoff(m)

\* C1 restricted to inputs whose codes are all in the vocabulary.
C1_QuotaExactKnownCodes == HasUnknownCode \/ C1_QuotaExact

\* The doubled staffing totals of day d of schedule s are am2 and pm2.
StaffingIs(s, d, am2, pm2) ==
    /\ 2 * CountOn(s, d, {"Z"}) + CountOn(s, d, {"ZT"}) = am2
    /\ 2 * CountOn(s, d, {"HC", "IA"}) + CountOn(s, d, {"HCT", "IAT"}) = pm2

\* C2: in every returned schedule, every day's weighted AM total is 1 and its
\* weighted PM total is 2, or 1 on a reduced staffing day (doubled: 2, 4, 2).
C2_StaffingExact ==
    \A s \in ReturnedSchedules : \A d \in Days :
        StaffingIs(s, d, 2, IF GetDayOfWeek(d) \in option.reducedStaffingDays THEN 2 ELSE 4)

\* C2 restricted to inputs whose codes are all in the vocabulary.
C2_StaffingExactKnownCodes == HasUnknownCode \/ C2_StaffingExact

\* C3: every non-empty input cell inside the month appears unchanged, at the
\* same member and day, in every returned schedule.
C3_PrefilledPreserved ==
    \A s \in ReturnedSchedules : \A m \in Members, d \in Days :
        ~InputEmpty(m, d) => s[m].days[d + 1] = CodeAt(m, d)

\* A schedule was returned for an input with a pre-filled cell that is not one
\* of the codes the extractor itself writes.
C3_Witness ==
    /\ ReturnedSchedules # {}
    /\ \E m \in Members, d \in Days :
           ~InputEmpty(m, d) /\ CodeAt(m, d) \notin {"R", "Z", "HC", "IA"}

\* C4: every assignment a schedule was extracted from has exactly one shift
\* type per (member, day), and every EMPTY input cell is returned as R, Z, HC
\* or IA.
C4_ExactlyOneCategory ==
    /\ \A k \in SolvedCalls : \A m \in Members, d \in Days :
           Cardinality({t \in ShiftTypes : calls[k].value[m][d][t] = 1}) = 1
    /\ \A s \in ReturnedSchedules : \A m \in Members, d \in Days :
           InputEmpty(m, d) => s[m].days[d + 1] \in {"R", "Z", "HC", "IA"}

\* A schedule was returned in which the solver decided all four kinds of cell.
C4_Witness ==
    \E s \in ReturnedSchedules :
        \A code \in {"R", "Z", "HC", "IA"} :
            \E m \in Members, d \in Days : InputEmpty(m, d) /\ s[m].days[d + 1] = code

\* C5: in no returned schedule is a PM day (HC, IA, HCT, IAT) of a member
\* immediately followed by an AM day (Z, ZT) of that member.
C5_NoPmThenAm ==
    \A s \in ReturnedSchedules : \A m \in Members, d \in 0..(num_days - 2) :
        ~(s[m].days[d + 1] \in PmCodes /\ s[m].days[d + 2] \in AmCodes)

\* A schedule was returned in which the solver put a member on PM one day and
\* decided that member's next day too.
C5_Witness ==
    \E s \in ReturnedSchedules : \E m \in Members, d \in 0..(num_days - 2) :
        /\ InputEmpty(m, d) /\ InputEmpty(m, d + 1)
        /\ s[m].days[d + 1] \in PmCodes

\* Every window of limit + 1 days of output row `days` that fits in the month
\* holds at most limit days whose code is one of codes.
RunsWithin(days, codes, limit) ==
    \A d \in 0..(num_days - limit - 1) :
        Cardinality({k \in (d + 1)..(d + limit + 1) : days[k] \in codes}) <= limit

C7_NoRestNextToRQ ==
    \A s \in ReturnedSchedules : \A m \in Members, d \in Days :
        (HasCell(m, d) /\ CodeAt(m, d) = "RQ") =>
            /\ (d > 0 /\ InputEmpty(m, d - 1)) => s[m].days[d] # "R"
            /\ (d < num_days - 1 /\ InputEmpty(m, d + 1)) => s[m].days[d + 2] # "R"

\* A schedule was returned for an input with an RQ cell whose next day is
\* missing from the member's list.
C7_Witness ==
    /\ ReturnedSchedules # {}
    /\ \E m \in Members, d \in Days :
           HasCell(m, d) /\ CodeAt(m, d) = "RQ" /\ d < num_days - 1 /\ ~HasCell(m, d + 1)

C9_InfeasibleIsTerminal ==
    \A k \in 1..Len(calls) :
        calls[k].status = "INFEASIBLE" =>
            /\ k = Len(calls) /\ ~solver.active
            /\ pc = "done" =>
                   result.status = "error" /\ "message" \in DOMAIN result /\ result.message # ""

Max(a, b) == IF a >= b THEN a ELSE b
\* By how much the call of record c ran past its time limit.
OverrunOf(c) == Max(0, c.finish - c.start - c.limit)

\* C10: in multi-solution mode no call starts once the budget is used up, every
\* call's limit is at most the budget remaining at its start and at most the
\* per-call cap, and the elapsed time exceeds the budget by at most the overrun
\* of the last call (not at all when every call returned within its limit).
C10_BudgetRespected ==
    num_solutions # 1 =>
        /\ \A k \in 1..Len(calls) :
               /\ calls[k].start < MaxTotalTime
               /\ calls[k].limit <= MaxTotalTime - calls[k].start
               /\ calls[k].limit <= PerCallCap
        /\ solver.active =>
               /\ solver.start < MaxTotalTime
               /\ solver.limit <= MaxTotalTime - solver.start
               /\ solver.limit <= PerCallCap
        /\ now <= MaxTotalTime + (IF calls = <<>> THEN 0 ELSE OverrunOf(calls[Len(calls)]))
        /\ (\A k \in 1..Len(calls) : OverrunOf(calls[k]) = 0) => now <= MaxTotalTime

\* A run ended past the budget after a call whose limit was shrunk to the
\* remaining budget overran it.
C10_Witness ==
    /\ pc = "done" /\ num_solutions # 1
    /\ now > MaxTotalTime
    /\ \E k \in 1..Len(calls) : calls[k].limit < PerCallCap /\ OverrunOf(calls[k]) > 0

\* C11: a run whose input holds, inside the month, a code that is neither EMPTY
\* nor in the WorkCode vocabulary ends with an error result, and no schedule is
\* returned for it.
C11_UnknownCodeRejected ==
    (HasUnknownCode /\ pc = "done") =>
        /\ result.status = "error" /\ "message" \in DOMAIN result
        /\ ReturnedSchedules = {}

\* The calls of a multi-solution run so far carry the seeds 0, 1, 2, ... in
\* order, each starts after the one before it returned and while budget
\* remains, there are at most num_solutions of them, each assignment satisfies
\* the one model, only OPTIMAL and FEASIBLE calls add a schedule, and the loop
\* is left only after num_solutions calls or with the budget used up.
SeedsInOrder ==
    num_solutions # 1 =>
        /\ Len(calls) <= num_solutions
        /\ \A k \in 1..Len(calls) :
               /\ calls[k].seed = k - 1
               /\ calls[k].start < MaxTotalTime
               /\ k > 1 => calls[k - 1].finish <= calls[k].start
        /\ solver.active =>
               /\ solver.seed = Len(calls) /\ solver.seed < num_solutions
               /\ calls # <<>> => calls[Len(calls)].finish <= solver.start
        /\ \A k \in SolvedCalls : calls[k].value \in model
        /\ Len(schedules) = Cardinality(SolvedCalls)
        /\ pc \in {"after", "done"} => (Len(calls) = num_solutions \/ now >= MaxTotalTime)

\* C12: in multi-solution mode the calls are seeds 0, 1, ..., k-1 issued one
\* after another against the same model, k being num_solutions or the first
\* index with no budget left; a call that ends neither OPTIMAL nor FEASIBLE
\* adds no schedule and does not end the loop; and the run terminates.
C12_SequentialSeeds ==
    /\ []SeedsInOrder
    /\ [][pc # "start" => model' = model]_vars
    /\ <>(pc = "done")

\* A multi-solution run ended in which a call that ended UNKNOWN was followed
\* by a call that returned a schedule.
C12_Witness ==
    /\ pc = "done" /\ num_solutions # 1
    /\ \E k \in 1..Len(calls) : \E j \in (k + 1)..Len(calls) :
           /\ calls[k].status = "UNKNOWN"
           /\ calls[j].status \in {"OPTIMAL", "FEASIBLE"}

\* Some day of the month has an odd number of pre-filled ZT cells or an odd
\* number of pre-filled HCT and IAT cells.
OddTrainingDay ==
    \E d \in Days :
        \/ CountCodes(d, {"ZT"}) % 2 = 1
        \/ CountCodes(d, {"HCT", "IAT"}) % 2 = 1

\* C13: for an input with an odd number of pre-filled ZT cells, or of HCT and
\* IAT cells, on some day, the model built has no solution, no call ends
\* OPTIMAL or FEASIBLE, and generate returns an error result and no schedule.
C13_OddTrainingIsError ==
    OddTrainingDay =>
        /\ pc # "start" => model = {}
        /\ SolvedCalls = {} /\ schedules = <<>>
        /\ pc = "done" => (result.status = "error" /\ ReturnedSchedules = {})

\* A multi-solution run ended for an input with one pre-filled HCT or IAT cell
\* on some day.
C13_Witness ==
    /\ pc = "done" /\ num_solutions # 1 /\ calls # <<>>
    /\ \E d \in Days : CountCodes(d, {"HCT", "IAT"}) = 1

====
